---- MODULE Spec2Model ----
(***************************************************************************)
(* Model of CS 499/Project7/Source.cpp: the DatabaseConnection RAII class, *)
(* validateInput, and the four operations createTable, insertData,         *)
(* readData and updateData, run against a model of the SQLite engine       *)
(* calls the source makes (sqlite3_open, sqlite3_prepare_v2,               *)
(* sqlite3_bind_*, sqlite3_step, sqlite3_finalize, sqlite3_exec,           *)
(* sqlite3_close).                                                         *)
(*                                                                         *)
(* A std::string is a finite sequence of characters; the character NUL is  *)
(* the zero byte, which a std::string may hold and at which a C string     *)
(* (c_str() read with length -1) ends.                                     *)
(***************************************************************************)
EXTENDS Integers, Sequences, FiniteSets, TLC

VARIABLES
    db,          \* the native handle: "null", "open", "errhandle", "closed", "freed"
    owners,      \* number of live DatabaseConnection objects holding db
    closeCalls,  \* number of sqlite3_close calls made on the handle
    schema,      \* TRUE when table Users exists in the file
    table,       \* rows of Users in rowid order: [id, name, age]
    seq,         \* sqlite_sequence value of Users (AUTOINCREMENT)
    allocated,   \* prepared statements of the connection not yet finalized
    pc,          \* position of the caller / of the operation in progress
    cur,         \* the operation in progress, its arguments, the engine fault it met
    stmt,        \* state of the sqlite3_stmt of that operation
    result,      \* outcome of that operation: "pending", "ok" or the error
    trace,       \* the calls that operation has made so far, in order
    pre,         \* table as it was when that operation started
    preAlloc,    \* allocated as it was when that operation started
    preSchema,   \* schema as it was when that operation started
    sql,         \* the SQL text that operation has handed to the engine
    delivered,   \* rows that operation (readData) has handed to callback
    maxId,       \* largest id ever given to a row (history)
    prepFailed,  \* TRUE once a sqlite3_prepare_v2 of this connection has failed (history)
    ip,          \* statements of main's try block completed so far
    initial      \* rows the file held when the run began

vars == <<db, owners, closeCalls, schema, table, seq, allocated, pc, cur,
          stmt, result, trace, pre, preAlloc, preSchema, sql, delivered,
          maxId, prepFailed, ip, initial>>

----------------------------------------------------------------------------
(* Program constants *)

MinAge == 0
MaxAge == 150
MaxNameLen == 100

(* Bounds of the model *)

MaxRows == 2      \* the caller issues inserts while the table has fewer rows
MaxLeaked == 1    \* step faults are injected while fewer statements are live
MaxOwners == 2    \* copies are made while fewer objects have held the handle
MaxPriorRuns == 1 \* complete runs of main that may have filled test.db before

----------------------------------------------------------------------------
(* Inputs *)

NUL == "NUL"

Rep(c, n) == [i \in 1..n |-> c]

Names ==
    { <<>>, <<"a">>, <<NUL>>, Rep("a", MaxNameLen), Rep("a", MaxNameLen + 1) }

Ages == { MinAge - 1, MinAge, MaxAge, MaxAge + 1 }

Ids == 1..(MaxRows + 1)

\* Names that probe for SQL injection: Robert'); DROP TABLE Users;-- and a
\* name of quote and semicolon with a zero byte inside.
ProbeNames ==
    { <<"R", "o", "b", "e", "r", "t", "'", ")", ";", " ", "D", "R", "O", "P",
        " ", "T", "A", "B", "L", "E", " ", "U", "s", "e", "r", "s", ";", "-", "-">>,
      <<"'", ";", NUL, "-", "-">> }

ProbeAges == { 25 }

NoCall == [op |-> "none", name |-> <<>>, age |-> 0, id |-> 0, fault |-> FALSE]

Call(o, n, a, i, f) == [op |-> o, name |-> n, age |-> a, id |-> i, fault |-> f]

SetMax(S) == CHOOSE x \in S : \A y \in S : y <= x

SetMin(S) == CHOOSE x \in S : \A y \in S : x <= y

\* The SQL texts of the source: string literals, the same for every argument.
CreateSql ==
    "CREATE TABLE IF NOT EXISTS Users (ID INTEGER PRIMARY KEY AUTOINCREMENT, Name TEXT NOT NULL, Age INTEGER NOT NULL);"

InsertSql == "INSERT INTO Users (Name, Age) VALUES (?, ?);"

SelectSql == "SELECT * FROM Users;"

UpdateSql == "UPDATE Users SET Name = ?, Age = ? WHERE ID = ?;"

----------------------------------------------------------------------------
(* Pure functions of the source *)

\* Mutant of validateInput: the upper age bound is tested with >=.
validateInput_ageOffByOne(name, age) ==
    IF age < MinAge \/ age >= MaxAge THEN "AgeOutOfRange"
    ELSE IF Len(name) = 0 \/ Len(name) > MaxNameLen THEN "NameInvalid"
    ELSE "ok"

\* Mutant of validateInput: the name is tested before the age.
validateInput_nameFirst(name, age) ==
    IF Len(name) = 0 \/ Len(name) > MaxNameLen THEN "NameInvalid"
    ELSE IF age < MinAge \/ age > MaxAge THEN "AgeOutOfRange"
    ELSE "ok"

\* validateInput: the age is tested first, then the name; "ok" when neither throws.
validateInput(name, age) ==
    IF age < MinAge \/ age > MaxAge THEN "AgeOutOfRange"
    ELSE IF Len(name) = 0 \/ Len(name) > MaxNameLen THEN "NameInvalid"
    ELSE "ok"

\* name.c_str() read as a zero-terminated string (length argument -1):
\* the characters before the first zero byte.
c_str(s) ==
    LET nul == { i \in 1..Len(s) : s[i] = NUL }
    IN  IF nul = {} THEN s ELSE SubSeq(s, 1, SetMin(nul) - 1)

\* sqlite3_bind_text(stmt, 1, name.c_str(), -1, SQLITE_STATIC): the bound text.
sqlite3_bind_text(name) == c_str(name)

----------------------------------------------------------------------------
(* The engine, as the source drives it *)

RowIds(t) == { t[i].id : i \in 1..Len(t) }

\* ID INTEGER PRIMARY KEY AUTOINCREMENT: one more than the largest rowid the
\* table has ever held.
NextRowid(t, q) == SetMax(RowIds(t) \cup {q}) + 1

\* INSERT INTO Users (Name, Age) VALUES (?, ?) stepped to SQLITE_DONE.
InsertRow(t, q, n, a) == Append(t, [id |-> NextRowid(t, q), name |-> n, age |-> a])

\* Mutant of UpdateRows: the WHERE clause is missing, every row is rewritten.
UpdateRows_noWhere(t, i, n, a) ==
    [k \in 1..Len(t) |-> [t[k] EXCEPT !.name = n, !.age = a]]

\* UPDATE Users SET Name = ?, Age = ? WHERE ID = ? stepped to SQLITE_DONE.
UpdateRows(t, i, n, a) ==
    [k \in 1..Len(t) |->
        IF t[k].id = i THEN [t[k] EXCEPT !.name = n, !.age = a] ELSE t[k]]

\* sqlite3_prepare_v2 returns SQLITE_OK: the table named by the template
\* exists and the engine meets no fault; otherwise *ppStmt is NULL.
PrepareOk(sch, fault) == sch /\ ~fault

\* sqlite3_step returns SQLITE_DONE: no engine fault (SQLITE_BUSY, SQLITE_FULL,
\* SQLITE_IOERR, ...); a failed step leaves the table as it was.
StepDone(fault) == ~fault

\* sqlite3_close(db): with unfinalized statements it returns SQLITE_BUSY and
\* the handle stays as it is; a second close of a closed handle frees freed memory.
sqlite3_close(d, alloc) ==
    IF d = "closed" THEN "freed"
    ELSE IF alloc = 0 THEN "closed"
    ELSE d

----------------------------------------------------------------------------
(* State *)

Init ==
    /\ db = "null"
    /\ owners = 0
    /\ closeCalls = 0
    /\ schema = FALSE
    /\ table = <<>>
    /\ seq = 0
    /\ allocated = 0
    /\ pc = "start"
    /\ cur = NoCall
    /\ stmt = "None"
    /\ result = "none"
    /\ trace = <<>>
    /\ pre = <<>>
    /\ delivered = <<>>
    /\ maxId = 0
    /\ preAlloc = 0
    /\ prepFailed = FALSE
    /\ preSchema = FALSE
    /\ sql = ""
    /\ ip = 0
    /\ initial = <<>>

\* A DatabaseConnection is alive, its handle is open and no operation is running.
Ready == pc = "idle" /\ owners >= 1 /\ db = "open"

\* Mutant of DatabaseConnection: the constructor does not throw when
\* sqlite3_open fails, so an object exists around a handle that is not open.
DatabaseConnection_noThrow(outcome) ==
    /\ pc = "start"
    /\ db' = IF outcome = "ok" THEN "open"
             ELSE IF outcome = "fail_handle" THEN "errhandle" ELSE "null"
    /\ owners' = 1
    /\ pc' = "done"
    /\ result' = "ok"
    /\ cur' = Call("open", <<>>, 0, 0, outcome # "ok")
    /\ trace' = <<"sqlite3_open">>
    /\ UNCHANGED <<closeCalls, schema, table, seq, allocated, stmt, pre,
                   delivered, maxId, preAlloc, prepFailed,
                   preSchema, sql, ip, initial>>

\* DatabaseConnection::DatabaseConnection: sqlite3_open succeeds, or fails
\* having allocated a handle, or fails with *ppDb NULL; on failure the
\* constructor throws, so no object exists and no destructor will run.
DatabaseConnection(outcome) ==
    /\ pc = "start"
    /\ IF outcome = "ok"
       THEN /\ db' = "open"
            /\ owners' = 1
            /\ pc' = "done"
            /\ result' = "ok"
       ELSE /\ db' = IF outcome = "fail_handle" THEN "errhandle" ELSE "null"
            /\ owners' = 0
            /\ pc' = "exited"
            /\ result' = "ConnectionError"
    /\ cur' = Call("open", <<>>, 0, 0, outcome # "ok")
    /\ trace' = <<"sqlite3_open">>
    /\ UNCHANGED <<closeCalls, schema, table, seq, allocated, stmt, pre,
                   delivered, maxId, preAlloc, prepFailed,
                   preSchema, sql, ip, initial>>

\* DatabaseConnection::~DatabaseConnection, run when the owning scope ends
\* (normally or by an exception leaving the try block).
DestroyDatabaseConnection ==
    /\ pc \in {"idle", "done"}
    /\ owners = 1
    /\ db' = sqlite3_close(db, allocated)
    /\ closeCalls' = closeCalls + 1
    /\ owners' = 0
    /\ pc' = "exited"
    /\ UNCHANGED <<schema, table, seq, allocated, cur, stmt, result, trace,
                   pre, delivered, maxId, preAlloc, prepFailed,
                   preSchema, sql, ip, initial>>

\* The caller takes the outcome of the finished call (a return, or an
\* exception it catches) and goes on to its next statement.
Continue ==
    /\ pc = "done"
    /\ pc' = "idle"
    /\ cur' = NoCall
    /\ stmt' = "None"
    /\ result' = "none"
    /\ trace' = <<>>
    /\ pre' = <<>>
    /\ preAlloc' = 0
    /\ preSchema' = FALSE
    /\ sql' = ""
    /\ delivered' = <<>>
    /\ UNCHANGED <<db, owners, closeCalls, schema, table, seq, allocated, maxId, prepFailed,
                   ip, initial>>

\* Mutant of createTable: the statement lacks IF NOT EXISTS, so the engine
\* rejects it when the table is there.
createTable_noIfNotExists(fault) ==
    /\ Ready
    /\ cur' = Call("create", <<>>, 0, 0, fault)
    /\ preAlloc' = allocated
    /\ pre' = table
    /\ sql' = CreateSql
    /\ preSchema' = schema
    /\ pc' = "done"
    /\ IF ~fault /\ ~schema
       THEN /\ schema' = TRUE
            /\ result' = "ok"
            /\ trace' = <<"sqlite3_exec", "return">>
       ELSE /\ schema' = schema
            /\ result' = "DdlFailed"
            /\ trace' = <<"sqlite3_exec", "throw">>
    /\ UNCHANGED <<db, owners, closeCalls, table, seq, allocated, stmt,
                   delivered, maxId, prepFailed,
                   ip, initial>>

\* createTable: CREATE TABLE IF NOT EXISTS Users through sqlite3_exec.
createTable(fault) ==
    /\ Ready
    /\ cur' = Call("create", <<>>, 0, 0, fault)
    /\ preAlloc' = allocated
    /\ pre' = table
    /\ sql' = CreateSql
    /\ preSchema' = schema
    /\ pc' = "done"
    /\ IF ~fault
       THEN /\ schema' = TRUE
            /\ result' = "ok"
            /\ trace' = <<"sqlite3_exec", "return">>
       ELSE /\ schema' = schema
            /\ result' = "DdlFailed"
            /\ trace' = <<"sqlite3_exec", "throw">>
    /\ UNCHANGED <<db, owners, closeCalls, table, seq, allocated, stmt,
                   delivered, maxId, prepFailed,
                   ip, initial>>

\* Mutant of readData: a successful scan does not deliver the last row.
readData_skipLast(fault, n) ==
    /\ Ready
    /\ n \in 0..Len(table)
    /\ fault \/ n = Len(table)
    /\ cur' = Call("read", <<>>, 0, 0, fault)
    /\ preAlloc' = allocated
    /\ pre' = table
    /\ sql' = SelectSql
    /\ preSchema' = schema
    /\ pc' = "done"
    /\ IF schema /\ ~fault
       THEN /\ delivered' = SubSeq(table, 1, Len(table) - 1)
            /\ result' = "ok"
            /\ trace' = <<"sqlite3_exec", "return">>
       ELSE /\ delivered' = IF schema THEN SubSeq(table, 1, n) ELSE <<>>
            /\ result' = "ReadFailed"
            /\ trace' = <<"sqlite3_exec", "throw">>
    /\ UNCHANGED <<db, owners, closeCalls, schema, table, seq, allocated, stmt,
                   maxId, prepFailed,
                   ip, initial>>

\* callback / readData: SELECT * FROM Users through sqlite3_exec; callback is
\* invoked once per row, in rowid order, until the scan ends or fails after
\* n rows.
readData(fault, n) ==
    /\ Ready
    /\ n \in 0..Len(table)
    /\ fault \/ n = Len(table)
    /\ cur' = Call("read", <<>>, 0, 0, fault)
    /\ preAlloc' = allocated
    /\ pre' = table
    /\ sql' = SelectSql
    /\ preSchema' = schema
    /\ pc' = "done"
    /\ IF schema /\ ~fault
       THEN /\ delivered' = table
            /\ result' = "ok"
            /\ trace' = <<"sqlite3_exec", "return">>
       ELSE /\ delivered' = IF schema THEN SubSeq(table, 1, n) ELSE <<>>
            /\ result' = "ReadFailed"
            /\ trace' = <<"sqlite3_exec", "throw">>
    /\ UNCHANGED <<db, owners, closeCalls, schema, table, seq, allocated, stmt,
                   maxId, prepFailed,
                   ip, initial>>

----------------------------------------------------------------------------
(* insertData and executePreparedSQL *)

\* Mutant of insertData: executePreparedSQL is called without validateInput.
insertData_unvalidated(name, age) ==
    /\ Ready
    /\ cur' = Call("insert", name, age, 0, FALSE)
    /\ preAlloc' = allocated
    /\ pre' = table
    /\ preSchema' = schema
    /\ pc' = "ins_prepare"
    /\ stmt' = "Created"
    /\ result' = "pending"
    /\ trace' = <<"validate">>
    /\ UNCHANGED <<db, owners, closeCalls, schema, table, seq, allocated,
                   delivered, maxId, prepFailed,
                   sql, ip, initial>>

\* insertData, lines 85-88: validateInput, then the call of executePreparedSQL
\* with the fixed INSERT template (its sqlite3_stmt* is declared, not yet set).
insertData(name, age) ==
    /\ Ready
    /\ cur' = Call("insert", name, age, 0, FALSE)
    /\ preAlloc' = allocated
    /\ pre' = table
    /\ preSchema' = schema
    /\ IF validateInput(name, age) = "ok"
       THEN /\ pc' = "ins_prepare"
            /\ stmt' = "Created"
            /\ result' = "pending"
            /\ trace' = <<"validate">>
       ELSE /\ pc' = "done"
            /\ stmt' = "None"
            /\ result' = validateInput(name, age)
            /\ trace' = <<"validate", "throw">>
    /\ UNCHANGED <<db, owners, closeCalls, schema, table, seq, allocated,
                   delivered, maxId, prepFailed,
                   sql, ip, initial>>

\* Mutant of executePreparedSQL_prepare: a failed prepare leaves a statement
\* allocated.
executePreparedSQL_prepare_leak(fault) ==
    /\ pc = "ins_prepare"
    /\ cur' = [cur EXCEPT !.fault = fault]
    /\ sql' = InsertSql
    /\ prepFailed' = (prepFailed \/ ~PrepareOk(schema, fault))
    /\ allocated' = allocated + 1
    /\ IF PrepareOk(schema, fault)
       THEN /\ stmt' = "Prepared"
            /\ pc' = "ins_bind"
            /\ result' = result
            /\ trace' = Append(trace, "prepare")
       ELSE /\ stmt' = "Null"
            /\ pc' = "done"
            /\ result' = "PrepareFailed"
            /\ trace' = trace \o <<"prepare", "throw">>
    /\ UNCHANGED <<db, owners, closeCalls, schema, table, seq, pre,
                   delivered, maxId, preAlloc,
                   preSchema, ip, initial>>

\* Mutant of executePreparedSQL_prepare: after a successful prepare the
\* statement is stepped without its parameters having been bound.
executePreparedSQL_prepare_noBind(fault) ==
    /\ pc = "ins_prepare"
    /\ cur' = [cur EXCEPT !.fault = fault]
    /\ sql' = InsertSql
    /\ prepFailed' = (prepFailed \/ ~PrepareOk(schema, fault))
    /\ IF PrepareOk(schema, fault)
       THEN /\ allocated' = allocated + 1
            /\ stmt' = "Prepared"
            /\ pc' = "ins_step"
            /\ result' = result
            /\ trace' = Append(trace, "prepare")
       ELSE /\ allocated' = allocated
            /\ stmt' = "Null"
            /\ pc' = "done"
            /\ result' = "PrepareFailed"
            /\ trace' = trace \o <<"prepare", "throw">>
    /\ UNCHANGED <<db, owners, closeCalls, schema, table, seq, pre,
                   delivered, maxId, preAlloc,
                   preSchema, ip, initial>>

\* executePreparedSQL, lines 47-49: sqlite3_prepare_v2, throw on failure.
executePreparedSQL_prepare(fault) ==
    /\ pc = "ins_prepare"
    /\ cur' = [cur EXCEPT !.fault = fault]
    /\ sql' = InsertSql
    /\ prepFailed' = (prepFailed \/ ~PrepareOk(schema, fault))
    /\ IF PrepareOk(schema, fault)
       THEN /\ allocated' = allocated + 1
            /\ stmt' = "Prepared"
            /\ pc' = "ins_bind"
            /\ result' = result
            /\ trace' = Append(trace, "prepare")
       ELSE /\ allocated' = allocated
            /\ stmt' = "Null"
            /\ pc' = "done"
            /\ result' = "PrepareFailed"
            /\ trace' = trace \o <<"prepare", "throw">>
    /\ UNCHANGED <<db, owners, closeCalls, schema, table, seq, pre,
                   delivered, maxId, preAlloc,
                   preSchema, ip, initial>>

\* executePreparedSQL, lines 52-53: bind the name text and the age.
executePreparedSQL_bind ==
    /\ pc = "ins_bind"
    /\ stmt' = "Bound"
    /\ pc' = "ins_step"
    /\ trace' = Append(trace, "bind")
    /\ UNCHANGED <<db, owners, closeCalls, schema, table, seq, allocated, cur,
                   result, pre, delivered, maxId, preAlloc, prepFailed,
                   preSchema, sql, ip, initial>>

\* executePreparedSQL, lines 56-58: sqlite3_step; anything but SQLITE_DONE
\* throws, and the throw leaves the function before sqlite3_finalize.
executePreparedSQL_step(fault) ==
    /\ pc = "ins_step"
    /\ fault => allocated <= MaxLeaked
    /\ cur' = [cur EXCEPT !.fault = fault]
    /\ IF StepDone(fault)
       THEN /\ table' = InsertRow(table, seq, sqlite3_bind_text(cur.name), cur.age)
            /\ seq' = NextRowid(table, seq)
            /\ maxId' = IF NextRowid(table, seq) > maxId
                        THEN NextRowid(table, seq) ELSE maxId
            /\ stmt' = "Executed"
            /\ pc' = "ins_finalize"
            /\ result' = result
            /\ trace' = Append(trace, "step")
       ELSE /\ UNCHANGED <<table, seq, maxId>>
            /\ stmt' = "Failed"
            /\ pc' = "done"
            /\ result' = "ExecFailed"
            /\ trace' = trace \o <<"step", "throw">>
    /\ UNCHANGED <<db, owners, closeCalls, schema, allocated, pre, delivered, preAlloc, prepFailed,
                   preSchema, sql, ip, initial>>

\* executePreparedSQL, lines 61-62: sqlite3_finalize and return.
executePreparedSQL_finalize ==
    /\ pc = "ins_finalize"
    /\ allocated' = allocated - 1
    /\ stmt' = "Released"
    /\ pc' = "done"
    /\ result' = "ok"
    /\ trace' = trace \o <<"finalize", "return">>
    /\ UNCHANGED <<db, owners, closeCalls, schema, table, seq, cur, pre,
                   delivered, maxId, preAlloc, prepFailed,
                   preSchema, sql, ip, initial>>

----------------------------------------------------------------------------
(* updateData *)

\* updateData, lines 115-118: validateInput, then the fixed UPDATE template
\* and the declaration of its sqlite3_stmt*.
updateData(id, name, age) ==
    /\ Ready
    /\ cur' = Call("update", name, age, id, FALSE)
    /\ preAlloc' = allocated
    /\ pre' = table
    /\ preSchema' = schema
    /\ IF validateInput(name, age) = "ok"
       THEN /\ pc' = "upd_prepare"
            /\ stmt' = "Created"
            /\ result' = "pending"
            /\ trace' = <<"validate">>
       ELSE /\ pc' = "done"
            /\ stmt' = "None"
            /\ result' = validateInput(name, age)
            /\ trace' = <<"validate", "throw">>
    /\ UNCHANGED <<db, owners, closeCalls, schema, table, seq, allocated,
                   delivered, maxId, prepFailed,
                   sql, ip, initial>>

\* updateData, lines 121-123: sqlite3_prepare_v2, throw on failure.
updateData_prepare(fault) ==
    /\ pc = "upd_prepare"
    /\ cur' = [cur EXCEPT !.fault = fault]
    /\ sql' = UpdateSql
    /\ prepFailed' = (prepFailed \/ ~PrepareOk(schema, fault))
    /\ IF PrepareOk(schema, fault)
       THEN /\ allocated' = allocated + 1
            /\ stmt' = "Prepared"
            /\ pc' = "upd_bind"
            /\ result' = result
            /\ trace' = Append(trace, "prepare")
       ELSE /\ allocated' = allocated
            /\ stmt' = "Null"
            /\ pc' = "done"
            /\ result' = "PrepareFailed"
            /\ trace' = trace \o <<"prepare", "throw">>
    /\ UNCHANGED <<db, owners, closeCalls, schema, table, seq, pre,
                   delivered, maxId, preAlloc,
                   preSchema, ip, initial>>

\* updateData, lines 126-128: bind the name text, the age and the id.
updateData_bind ==
    /\ pc = "upd_bind"
    /\ stmt' = "Bound"
    /\ pc' = "upd_step"
    /\ trace' = Append(trace, "bind")
    /\ UNCHANGED <<db, owners, closeCalls, schema, table, seq, allocated, cur,
                   result, pre, delivered, maxId, preAlloc, prepFailed,
                   preSchema, sql, ip, initial>>

\* updateData, lines 131-133: sqlite3_step; anything but SQLITE_DONE throws,
\* and the throw leaves the function before sqlite3_finalize.
updateData_step(fault) ==
    /\ pc = "upd_step"
    /\ fault => allocated <= MaxLeaked
    /\ cur' = [cur EXCEPT !.fault = fault]
    /\ IF StepDone(fault)
       THEN /\ table' = UpdateRows(table, cur.id, sqlite3_bind_text(cur.name), cur.age)
            /\ stmt' = "Executed"
            /\ pc' = "upd_finalize"
            /\ result' = result
            /\ trace' = Append(trace, "step")
       ELSE /\ table' = table
            /\ stmt' = "Failed"
            /\ pc' = "done"
            /\ result' = "ExecFailed"
            /\ trace' = trace \o <<"step", "throw">>
    /\ UNCHANGED <<db, owners, closeCalls, schema, seq, allocated, pre,
                   delivered, maxId, preAlloc, prepFailed,
                   preSchema, sql, ip, initial>>

\* updateData, lines 135-136: sqlite3_finalize and return.
updateData_finalize ==
    /\ pc = "upd_finalize"
    /\ allocated' = allocated - 1
    /\ stmt' = "Released"
    /\ pc' = "done"
    /\ result' = "ok"
    /\ trace' = trace \o <<"finalize", "return">>
    /\ UNCHANGED <<db, owners, closeCalls, schema, table, seq, cur, pre,
                   delivered, maxId, preAlloc, prepFailed,
                   preSchema, sql, ip, initial>>

----------------------------------------------------------------------------
(* The class as written has no deleted copy operations: the implicit copy   *)
(* constructor copies the pointer db, and each object's destructor closes.  *)

\* Implicit DatabaseConnection(const DatabaseConnection&): a second owner.
CopyDatabaseConnection ==
    /\ pc = "idle"
    /\ owners >= 1
    /\ owners + closeCalls < MaxOwners
    /\ owners' = owners + 1
    /\ UNCHANGED <<db, closeCalls, schema, table, seq, allocated, pc, cur,
                   stmt, result, trace, pre, delivered, maxId, preAlloc, prepFailed,
                   preSchema, sql, ip, initial>>

\* ~DatabaseConnection of one of several owners: the others keep the pointer.
DestroyOneOwner ==
    /\ pc = "idle"
    /\ owners > 1
    /\ db' = sqlite3_close(db, allocated)
    /\ closeCalls' = closeCalls + 1
    /\ owners' = owners - 1
    /\ UNCHANGED <<schema, table, seq, allocated, pc, cur, stmt, result,
                   trace, pre, delivered, maxId, preAlloc, prepFailed,
                   preSchema, sql, ip, initial>>

\* Any operation through an owner whose handle another owner has closed uses
\* a released handle: the behaviour of the program is undefined from there on.
UseReleasedHandle ==
    /\ pc = "idle"
    /\ owners >= 1
    /\ db = "closed"
    /\ pc' = "undefined"
    /\ UNCHANGED <<db, owners, closeCalls, schema, table, seq, allocated, cur,
                   stmt, result, trace, pre, delivered, maxId, preAlloc, prepFailed,
                   preSchema, sql, ip, initial>>

----------------------------------------------------------------------------
(* Specifications *)

\* A caller that owns one DatabaseConnection and issues any operations.
Next ==
    \/ \E o \in {"ok", "fail_handle", "fail_null"} : DatabaseConnection(o)
    \/ DestroyDatabaseConnection
    \/ Continue
    \/ \E f \in BOOLEAN : createTable(f)
    \/ \E f \in BOOLEAN, n \in 0..MaxRows : readData(f, n)
    \/ \E n \in Names, a \in Ages : Len(table) < MaxRows /\ insertData(n, a)
    \/ \E f \in BOOLEAN : executePreparedSQL_prepare(f)
    \/ executePreparedSQL_bind
    \/ \E f \in BOOLEAN : executePreparedSQL_step(f)
    \/ executePreparedSQL_finalize
    \/ \E i \in Ids, n \in Names, a \in Ages : updateData(i, n, a)
    \/ \E f \in BOOLEAN : updateData_prepare(f)
    \/ updateData_bind
    \/ \E f \in BOOLEAN : updateData_step(f)
    \/ updateData_finalize

Spec == Init /\ [][Next]_vars

\* The same caller, passing names that hold SQL metacharacters.
NextProbe ==
    \/ \E o \in {"ok", "fail_handle", "fail_null"} : DatabaseConnection(o)
    \/ DestroyDatabaseConnection
    \/ Continue
    \/ \E f \in BOOLEAN : createTable(f)
    \/ \E f \in BOOLEAN, n \in 0..MaxRows : readData(f, n)
    \/ \E n \in ProbeNames, a \in ProbeAges :
           Len(table) < MaxRows /\ insertData(n, a)
    \/ \E f \in BOOLEAN : executePreparedSQL_prepare(f)
    \/ executePreparedSQL_bind
    \/ \E f \in BOOLEAN : executePreparedSQL_step(f)
    \/ executePreparedSQL_finalize
    \/ \E i \in Ids, n \in ProbeNames, a \in ProbeAges : updateData(i, n, a)
    \/ \E f \in BOOLEAN : updateData_prepare(f)
    \/ updateData_bind
    \/ \E f \in BOOLEAN : updateData_step(f)
    \/ updateData_finalize

SpecProbe == Init /\ [][NextProbe]_vars

\* The same caller, also using the copy operations the class leaves available.
NextCopy ==
    \/ Next
    \/ CopyDatabaseConnection
    \/ DestroyOneOwner
    \/ UseReleasedHandle

SpecCopy == Init /\ [][NextCopy]_vars

----------------------------------------------------------------------------
(* main *)

Alice == <<"A", "l", "i", "c", "e">>

Bob == <<"B", "o", "b">>

\* Rows 1..2k that k earlier complete runs of main have left in test.db:
\* each run added Alice/25 and Bob/30, and set row 2 to Bob/35.
PriorRows(k) ==
    [j \in 1..(2 * k) |->
        IF j % 2 = 1 THEN [id |-> j, name |-> Alice, age |-> 25]
        ELSE [id |-> j, name |-> Bob, age |-> IF j = 2 THEN 35 ELSE 30]]

\* test.db before main runs: a new file, a file in which an earlier run
\* created the table and stored nothing, or the file earlier complete runs
\* have left.
MainInit ==
    /\ db = "null"
    /\ owners = 0
    /\ closeCalls = 0
    /\ \E k \in 0..MaxPriorRuns :
          /\ table = PriorRows(k)
          /\ initial = PriorRows(k)
          /\ seq = 2 * k
          /\ maxId = 2 * k
          /\ schema \in IF k = 0 THEN BOOLEAN ELSE {TRUE}
    /\ allocated = 0
    /\ pc = "start"
    /\ cur = NoCall
    /\ stmt = "None"
    /\ result = "none"
    /\ trace = <<>>
    /\ pre = <<>>
    /\ delivered = <<>>
    /\ preAlloc = 0
    /\ prepFailed = FALSE
    /\ preSchema = FALSE
    /\ sql = ""
    /\ ip = 0

\* main, line 143: DatabaseConnection dbConn("test.db").
main_open ==
    /\ ip = 0
    /\ \E o \in {"ok", "fail_handle", "fail_null"} : DatabaseConnection(o)

\* Mutant of main_next: the error of a statement is swallowed and main goes on.
main_next_ignoreError ==
    /\ pc = "done"
    /\ ip < 7
    /\ ip' = ip + 1
    /\ pc' = "idle"
    /\ cur' = NoCall
    /\ stmt' = "None"
    /\ result' = "none"
    /\ trace' = <<>>
    /\ pre' = <<>>
    /\ preAlloc' = 0
    /\ preSchema' = FALSE
    /\ sql' = ""
    /\ delivered' = <<>>
    /\ UNCHANGED <<db, owners, closeCalls, schema, table, seq, allocated,
                   maxId, prepFailed, initial>>

\* main, lines 141-164: a statement of the try block has returned; control
\* goes to the next statement.
main_next ==
    /\ pc = "done"
    /\ result = "ok"
    /\ ip < 7
    /\ ip' = ip + 1
    /\ pc' = "idle"
    /\ cur' = NoCall
    /\ stmt' = "None"
    /\ result' = "none"
    /\ trace' = <<>>
    /\ pre' = <<>>
    /\ preAlloc' = 0
    /\ preSchema' = FALSE
    /\ sql' = ""
    /\ delivered' = <<>>
    /\ UNCHANGED <<db, owners, closeCalls, schema, table, seq, allocated,
                   maxId, prepFailed, initial>>

\* main, line 146: createTable(dbConn.get()).
main_createTable ==
    /\ ip = 1
    /\ \E f \in BOOLEAN : createTable(f)

\* main, line 149: insertData(dbConn, "Alice", 25).
main_insertAlice ==
    /\ ip = 2
    /\ insertData(Alice, 25)

\* main, line 150: insertData(dbConn, "Bob", 30).
main_insertBob ==
    /\ ip = 3
    /\ insertData(Bob, 30)

\* main, lines 154 and 162: readData(dbConn).
main_readData ==
    /\ ip \in {4, 6}
    /\ \E f \in BOOLEAN, n \in 0..(2 * MaxPriorRuns + 2) : readData(f, n)

\* main, line 158: updateData(dbConn, 2, "Bob", 35).
main_updateData ==
    /\ ip = 5
    /\ updateData(2, Bob, 35)

\* main, lines 164-168: the try block ends, after its last statement or by
\* the exception of a statement; dbConn is destroyed and, for an exception,
\* the catch block reports it.
main_exit ==
    /\ \/ pc = "done" /\ result # "ok"
       \/ pc = "idle" /\ ip = 7
    /\ DestroyDatabaseConnection

MainNext ==
    \/ main_open
    \/ main_next
    \/ main_createTable
    \/ main_insertAlice
    \/ main_insertBob
    \/ main_readData
    \/ main_updateData
    \/ main_exit
    \/ \E f \in BOOLEAN : executePreparedSQL_prepare(f)
    \/ executePreparedSQL_bind
    \/ \E f \in BOOLEAN : executePreparedSQL_step(f)
    \/ executePreparedSQL_finalize
    \/ \E f \in BOOLEAN : updateData_prepare(f)
    \/ updateData_bind
    \/ \E f \in BOOLEAN : updateData_step(f)
    \/ updateData_finalize

MainSpec == MainInit /\ [][MainNext]_vars

----------------------------------------------------------------------------
(* Properties *)

WriteOp == cur.op \in {"insert", "update"}

\* The write operation in progress has returned or thrown.
WriteDone == pc = "done" /\ WriteOp

\* C1: whenever a write operation that prepared a statement has terminated,
\* with success or with ExecFailed, its statement has been finalized and no
\* prepared statement remains allocated.
C1_StatementFinalizedOnEveryExit ==
    (WriteDone /\ stmt \notin {"None", "Created", "Null"})
        => (stmt = "Released" /\ allocated = 0)

\* C2: when the run has ended, every handle the engine allocated (also by an
\* open that failed) has been passed to sqlite3_close exactly once.
C2_HandleClosedExactlyOnce ==
    (pc = "exited" /\ db # "null") => closeCalls = 1

\* C3: at every point at most one DatabaseConnection owns the handle, and
\* the handle is never released by two owners.
C3_SingleOwner ==
    owners <= 1 /\ closeCalls <= 1

\* C4: every row in storage has a name of 1..100 characters and an age in
\* 0..150.
C4_RowsWithinBounds ==
    \A k \in 1..Len(table) :
        /\ Len(table[k].name) >= 1
        /\ Len(table[k].name) <= 100
        /\ table[k].age >= 0
        /\ table[k].age <= 150

\* What validateInput did for the write operation in progress: the error it
\* threw, or "ok" when the operation went on past it.
ValidationOutcome ==
    IF trace = <<"validate", "throw">> THEN result ELSE "ok"

Count(sq, e) == Cardinality({ k \in 1..Len(sq) : sq[k] = e })

\* The arguments of the write operation in progress are within the bounds.
ArgsInBounds ==
    /\ cur.age >= 0 /\ cur.age <= 150
    /\ Len(cur.name) >= 1 /\ Len(cur.name) <= 100

\* C6: in insert and update validation is the first step; when it fails the
\* operation ends with the validation error having prepared, bound and
\* stepped nothing and with storage unchanged; a statement is prepared only
\* for arguments that passed validation.
C6_ValidationBeforePrepare ==
    WriteOp =>
        /\ trace[1] = "validate"
        /\ result \in {"AgeOutOfRange", "NameInvalid"} =>
               /\ trace = <<"validate", "throw">>
               /\ stmt = "None"
               /\ allocated = preAlloc
               /\ table = pre
        /\ (Count(trace, "prepare") > 0 \/ stmt # "None") => ArgsInBounds
        /\ ~ArgsInBounds => result \in {"AgeOutOfRange", "NameInvalid"}

\* C6 witness: an insert or update with an age out of range has ended with
\* the validation error on a table that holds rows.
C6_Witness ==
    /\ WriteDone
    /\ result = "AgeOutOfRange"
    /\ Len(table) >= 1
    /\ table = pre

\* The finished write operation ended exactly once, by a return after one
\* step or by one throw, and prepared and stepped at most once.
OneTerminalResult ==
    /\ Count(trace, "return") + Count(trace, "throw") = 1
    /\ trace[Len(trace)] \in {"return", "throw"}
    /\ (result = "ok") <=> (trace[Len(trace)] = "return")
    /\ result \in {"ok", "AgeOutOfRange", "NameInvalid", "PrepareFailed", "ExecFailed"}
    /\ Count(trace, "prepare") <= 1
    /\ Count(trace, "step") <= 1
    /\ result = "ok" => Count(trace, "step") = 1

\* Rows of t whose id is i.
Matching(t, i) == { k \in 1..Len(t) : t[k].id = i }

\* The successful write changed nothing but its own row: insert appended one
\* row, update kept the number of rows and every row with another id.
OwnRowOnly ==
    IF cur.op = "insert"
    THEN /\ Len(table) = Len(pre) + 1
         /\ SubSeq(table, 1, Len(pre)) = pre
    ELSE /\ Len(table) = Len(pre)
         /\ \A k \in 1..Len(pre) : pre[k].id # cur.id => table[k] = pre[k]
         /\ \A k \in 1..Len(pre) : table[k].id = pre[k].id

\* C7 as stated: a finished insert or update either succeeded having applied
\* its one row effect (exactly one row inserted or updated), or failed with
\* the table as it was; one terminal result, no retry.
C7_OneRowOrNothing ==
    WriteDone =>
        /\ result = "ok" =>
               /\ OwnRowOnly
               /\ cur.op = "update" => Cardinality(Matching(pre, cur.id)) = 1
        /\ result # "ok" => table = pre
        /\ OneTerminalResult

\* C7 amended: a finished insert or update either succeeded having applied
\* its whole effect (one row appended by insert; the row with the given id
\* rewritten by update, or no row when no row has that id), or failed with
\* the table as it was; until the step the table is as it was; one terminal
\* result, no retry.
C7_AllOrNothing ==
    WriteOp =>
        /\ Count(trace, "step") = 0 => table = pre
        /\ WriteDone =>
               /\ result = "ok" =>
                      /\ OwnRowOnly
                      /\ cur.op = "update" => Cardinality(Matching(pre, cur.id)) <= 1
               /\ result # "ok" => table = pre
               /\ OneTerminalResult

\* C7 witness: an update of a row of a two-row table has ended ExecFailed.
C7_Witness ==
    /\ WriteDone
    /\ cur.op = "update"
    /\ result = "ExecFailed"
    /\ Len(table) = 2
    /\ Matching(pre, cur.id) # {}

\* C8: a successful update with valid arguments on a present id leaves that
\* row holding the new name and age under its old id and every other row as
\* it was; on an absent id it ends without error (the engine meeting no
\* fault) and the whole table is as it was.
C8_UpdateFrame ==
    (WriteDone /\ cur.op = "update" /\ ArgsInBounds) =>
        IF Matching(pre, cur.id) # {}
        THEN result = "ok" =>
                 /\ Len(table) = Len(pre)
                 /\ \A k \in 1..Len(pre) :
                        IF pre[k].id = cur.id
                        THEN table[k] = [id |-> pre[k].id, name |-> cur.name,
                                         age |-> cur.age]
                        ELSE table[k] = pre[k]
        ELSE /\ table = pre
             /\ (schema /\ ~cur.fault) => result = "ok"

\* C9: a successful insert adds exactly one row, holding the inserted name
\* and age under an id no other row has and greater than every id given
\* before; a successful readAll delivers exactly the rows of the table.
C9_InsertAddsOneRow ==
    /\ (WriteDone /\ cur.op = "insert" /\ result = "ok") =>
           /\ Len(table) = Len(pre) + 1
           /\ SubSeq(table, 1, Len(pre)) = pre
           /\ table[Len(table)].name = cur.name
           /\ table[Len(table)].age = cur.age
           /\ \A k \in 1..Len(pre) : table[Len(table)].id > pre[k].id
           /\ table[Len(table)].id = maxId
    /\ (pc = "done" /\ cur.op = "read" /\ result = "ok") => delivered = table

\* C10: a write whose prepare failed has allocated no statement and has left
\* the handle open, its owner alive and storage as it was; after such a
\* failure an insert, update or readAll that meets no engine fault on an
\* existing table succeeds with its effect.
C10_PrepareFailedLeavesConnectionUsable ==
    /\ (WriteDone /\ result = "PrepareFailed") =>
           /\ stmt = "Null"
           /\ allocated = preAlloc
           /\ db = "open"
           /\ owners = 1
           /\ table = pre
    /\ (prepFailed /\ pc = "done" /\ schema /\ ~cur.fault) =>
           /\ (WriteOp /\ ArgsInBounds) => (result = "ok" /\ OwnRowOnly)
           /\ cur.op = "read" => (result = "ok" /\ delivered = table)

\* C10 witness: after a failed prepare, an insert on the same connection has
\* succeeded and added its row.
C10_Witness ==
    /\ prepFailed
    /\ WriteDone
    /\ cur.op = "insert"
    /\ result = "ok"
    /\ Len(table) = Len(pre) + 1

\* C11: createTable on a file that already holds the table succeeds (it ends
\* DdlFailed only when the engine meets a fault, never because the table
\* exists) and leaves the table there with all its rows as they were.
C11_CreateTableIdempotent ==
    (pc = "done" /\ cur.op = "create") =>
        /\ table = pre
        /\ preSchema => schema
        /\ ~cur.fault => (result = "ok" /\ schema)
        /\ result = "DdlFailed" => cur.fault
        /\ result \in {"ok", "DdlFailed"}

\* C11 witness: createTable has succeeded on a file whose table already
\* existed and held a row.
C11_Witness ==
    /\ pc = "done"
    /\ cur.op = "create"
    /\ preSchema
    /\ result = "ok"
    /\ Len(table) >= 1

MetaChars == { "'", ";", ")", "-" }

HasMeta(name) == \E k \in 1..Len(name) : name[k] \in MetaChars

\* C12: the SQL text handed to the engine by insert and update is the same
\* fixed template whatever the name, age and id; a name of valid length that
\* holds SQL metacharacters is stored as that literal text, the table still
\* exists and no other row is deleted or altered.
C12_ParametersNeverInSqlText ==
    /\ (WriteOp /\ sql # "") =>
           sql = IF cur.op = "insert"
                 THEN "INSERT INTO Users (Name, Age) VALUES (?, ?);"
                 ELSE "UPDATE Users SET Name = ?, Age = ? WHERE ID = ?;"
    /\ (WriteDone /\ result = "ok" /\ HasMeta(cur.name)) =>
           /\ schema
           /\ OwnRowOnly
           /\ cur.op = "insert" => table[Len(table)].name = cur.name
           /\ cur.op = "update" =>
                  \A k \in Matching(pre, cur.id) : table[k].name = cur.name

\* C13: in main's run, once a statement has surfaced an error nothing more
\* of the sequence runs: the next step is the end of the run, with that
\* error as the one reported and with the table, what earlier statements
\* stored in it included, as it was; a failed open ends the run at once.
C13_FirstErrorEndsRun ==
    /\ [][(pc = "done" /\ result # "ok") =>
              /\ pc' = "exited"
              /\ result' = result
              /\ cur' = cur
              /\ ip' = ip
              /\ table' = table
              /\ schema' = schema]_vars
    /\ [](result = "ConnectionError" => (pc = "exited" /\ ip = 0 /\ cur.op = "open"))
    /\ []((pc = "exited" /\ ip >= 3) =>
              /\ Len(table) > Len(initial)
              /\ table[Len(initial) + 1].name = Alice
              /\ table[Len(initial) + 1].age = 25)
    /\ []((pc = "exited" /\ ip >= 4) =>
              /\ Len(table) = Len(initial) + 2
              /\ table[Len(initial) + 2].name = Bob)

\* C13 witness: the insert of Bob failed at its step and the run has ended
\* with that error, the row of Alice still stored.
C13_Witness ==
    /\ pc = "exited"
    /\ ip = 3
    /\ result = "ExecFailed"
    /\ cur.name = Bob
    /\ Len(table) = Len(initial) + 1
    /\ table[Len(table)].name = Alice

\* C14: in main's run on a store that began empty, the first readAll
\* delivers exactly {id 1, Alice, 25} and {id 2, Bob, 30}, and the readAll
\* after update(2, "Bob", 35) delivers row 1 unchanged and {id 2, Bob, 35}.
C14_MainScenario ==
    (initial = <<>> /\ pc = "done" /\ cur.op = "read" /\ result = "ok") =>
        /\ ip \in {4, 6}
        /\ ip = 4 => delivered = << [id |-> 1, name |-> Alice, age |-> 25],
                                    [id |-> 2, name |-> Bob, age |-> 30] >>
        /\ ip = 6 => delivered = << [id |-> 1, name |-> Alice, age |-> 25],
                                    [id |-> 2, name |-> Bob, age |-> 35] >>

\* C14 witness: on a store that began empty the second readAll has
\* delivered two rows, the second with age 35.
C14_Witness ==
    /\ initial = <<>>
    /\ pc = "done"
    /\ cur.op = "read"
    /\ result = "ok"
    /\ ip = 6
    /\ Len(delivered) = 2
    /\ delivered[2].age = 35

\* The moves of a statement between its states: the success path in order,
\* the two ends by a throw (stmt left NULL by a failed prepare, a failed
\* step), and the end of the operation that held it.
StmtEdges ==
    { <<"None", "Created">>, <<"Created", "Prepared">>,
      <<"Prepared", "Bound">>, <<"Bound", "Executed">>,
      <<"Executed", "Released">>,
      <<"Created", "Null">>, <<"Bound", "Failed">>,
      <<"Released", "None">>, <<"Null", "None">>, <<"Failed", "None">> }

\* The calls made on the statement so far, for each state it can be in.
StmtTrace ==
    [ None     |-> { <<>>, <<"validate", "throw">> },
      Created  |-> { <<"validate">> },
      Prepared |-> { <<"validate", "prepare">> },
      Bound    |-> { <<"validate", "prepare", "bind">> },
      Executed |-> { <<"validate", "prepare", "bind", "step">> },
      Released |-> { <<"validate", "prepare", "bind", "step",
                       "finalize", "return">> },
      Null     |-> { <<"validate", "prepare", "throw">> },
      Failed   |-> { <<"validate", "prepare", "bind", "step", "throw">> } ]

\* C15: a write-path statement moves only in the order Created, Prepared,
\* Bound, Executed, Released, skipping none on the success path and
\* revisiting none; one statement is created per operation, it is stepped at
\* most once, and nothing is called on it after its release or by a later
\* operation.
C15_StatementLifecycle ==
    /\ [][stmt' # stmt => <<stmt, stmt'>> \in StmtEdges]_vars
    /\ [][(stmt \in {"Released", "Null", "Failed"} /\ trace' # trace)
              => (stmt' = "None" /\ trace' = <<>>)]_vars
    /\ [][stmt' = "Created" => (pc = "idle" /\ trace = <<>> /\ cur = NoCall)]_vars
    /\ [](cur.op \in {"none", "insert", "update"} => trace \in StmtTrace[stmt])
    /\ [](cur.op \notin {"insert", "update"} => stmt = "None")
    /\ []((WriteDone /\ result = "ok") => stmt = "Released")
    /\ [](Count(trace, "prepare") <= 1 /\ Count(trace, "step") <= 1)

\* C15 witness: an update has returned with its statement released after
\* prepare, bind, one step and finalize.
C15_Witness ==
    /\ WriteDone
    /\ cur.op = "update"
    /\ result = "ok"
    /\ stmt = "Released"
    /\ trace = <<"validate", "prepare", "bind", "step", "finalize", "return">>

\* C16: in a run of main every storage operation executes on the open handle,
\* after the successful open and before the close of the connection; nothing
\* runs after the close, and when the open fails no operation is attempted.
C16_OperationsOnOpenHandle ==
    /\ [](pc \notin {"start", "exited"} =>
              (db = "open" /\ owners = 1 /\ closeCalls = 0))
    /\ [](cur.op \in {"create", "insert", "read", "update"} =>
              (db \in {"open", "closed"} /\ ip \in 1..6))
    /\ [](result = "ConnectionError" =>
              /\ pc = "exited" /\ cur.op = "open" /\ ip = 0
              /\ db # "open" /\ closeCalls = 0
              /\ table = initial)
    /\ [][(trace' # trace /\ trace' # <<>>) =>
              (db' = "open" \/ result' = "ConnectionError")]_vars
    /\ [][closeCalls = 0 /\ pc # "exited"]_vars

\* C16 witness: main ran all its operations and then closed the connection.
C16_Witness ==
    /\ pc = "exited"
    /\ ip = 7
    /\ closeCalls = 1
    /\ db = "closed"
    /\ Len(table) = Len(initial) + 2

\* C17: readData changes neither the rows nor the schema, prepares no
\* statement and binds no parameter (its text is the fixed SELECT); when it
\* succeeds the callback has been invoked once for each row of the table, in
\* order, none skipped and none twice.
C17_ReadOnlyAndComplete ==
    (cur.op = "read") =>
        /\ table = pre
        /\ schema = preSchema
        /\ allocated = preAlloc
        /\ stmt = "None"
        /\ sql = "SELECT * FROM Users;"
        /\ Count(trace, "prepare") + Count(trace, "bind") + Count(trace, "step") = 0
        /\ result = "ok" =>
               /\ Len(delivered) = Len(table)
               /\ \A k \in 1..Len(table) : delivered[k] = table[k]
               /\ \A j, k \in 1..Len(delivered) :
                      delivered[j].id = delivered[k].id => j = k

\* C17 witness: a read of a table of two rows has succeeded.
C17_Witness ==
    /\ pc = "done"
    /\ cur.op = "read"
    /\ result = "ok"
    /\ Len(table) = 2
    /\ Len(delivered) = 2

\* C18: when the age is out of range and the name is invalid as well, the
\* error is AgeOutOfRange, not NameInvalid; a call reports one error only.
C18_AgeCheckedFirst ==
    WriteOp =>
        /\ (/\ (cur.age < 0 \/ cur.age > 150)
            /\ (Len(cur.name) = 0 \/ Len(cur.name) > 100))
               => (result = "AgeOutOfRange" /\ trace = <<"validate", "throw">>)
        /\ Count(trace, "throw") <= 1
        /\ result \in {"AgeOutOfRange", "NameInvalid"} => Count(trace, "throw") = 1

\* C18 witness: an empty name with age 151 was rejected as AgeOutOfRange.
C18_Witness ==
    /\ WriteDone
    /\ cur.age = 151
    /\ Len(cur.name) = 0
    /\ result = "AgeOutOfRange"

====
